---- MODULE Spec2Model ----
(***************************************************************************)
(* Model of plaso/output/winevt_rc.py: the sqlite3 database file accessor  *)
(* (Sqlite3DatabaseFile), the Windows EventLog resources database reader   *)
(* (WinevtResourcesSqlite3DatabaseReader) and the resources helper         *)
(* (WinevtResourcesHelper).                                                *)
(*                                                                         *)
(* Python values are modelled as follows.  An optional value is a sequence *)
(* of length at most one: None is <<>> and a value v is <<v>>.  A message  *)
(* string is a sequence of one-character strings, so '' is <<>> and the    *)
(* returned value '' is << <<>> >>.  Other strings (names, versions) are   *)
(* only compared for equality and are TLA+ strings.  A call outcome is a   *)
(* record [exc, val]: exc is "" for a normal return of val, and the name   *)
(* of the exception class when the call raised.                            *)
(***************************************************************************)
EXTENDS Integers, Sequences, FiniteSets, TLC

VARIABLES
  store,      \* content of the database file on disk (never written here)
  isfile,     \* os.path.isfile(database_path) as the helper would see it
  db,         \* a Sqlite3DatabaseFile used directly
  gen,        \* the generator object of the last direct db.GetValues() call
  reader,     \* a WinevtResourcesSqlite3DatabaseReader used directly
  helper,     \* a WinevtResourcesHelper
  ret         \* the last call made and its outcome

vars == <<store, isfile, db, gen, reader, helper, ret>>

(***************************************************************************)
(* Python values.                                                          *)
(***************************************************************************)
None == <<>>

Some(v) == <<v>>

Return(v) == [exc |-> "", val |-> v]

Raise(e) == [exc |-> e, val |-> None]

\* Body applied to a value: "value = ...; Body".
Bind(value, Body(_)) == Body(value)

\* Truth value of an optional string (a sequence of characters): "if s:".
TruthyStr(o) == o # None /\ Len(o[1]) > 0

\* Truth value of an optional integer: "if n:".
TruthyInt(o) == o # None /\ o[1] # 0

\* Truth value of an optional name (a TLA+ string): "if s:".
TruthyName(o) == o # None /\ o[1] # ""

(***************************************************************************)
(* Bounds of the model.                                                    *)
(***************************************************************************)
\* Largest number of rows of one table that match one condition.
MaxRows == 2

\* Largest number of segments a raw message string is put together from.
MaxTokens == 3

(***************************************************************************)
(* Formatting.                                                             *)
(***************************************************************************)
HexChars == <<"0", "1", "2", "3", "4", "5", "6", "7",
              "8", "9", "a", "b", "c", "d", "e", "f">>

DecChars == <<"0", "1", "2", "3", "4", "5", "6", "7", "8", "9">>

RECURSIVE HexDigits(_)
\* '{0:x}'.format(n) for n >= 0.
HexDigits(n) ==
  IF n < 16 THEN <<HexChars[n + 1]>>
  ELSE HexDigits(n \div 16) \o <<HexChars[(n % 16) + 1]>>

RECURSIVE ZeroPad(_, _)
ZeroPad(s, width) == IF Len(s) >= width THEN s ELSE ZeroPad(<<"0">> \o s, width)

\* '0x{0:08x}'.format(n) for n >= 0.
Hex8(n) == <<"0", "x">> \o ZeroPad(HexDigits(n), 8)

RECURSIVE DecDigits(_)
\* '{0:d}'.format(n) for n >= 0.
DecDigits(n) ==
  IF n < 10 THEN <<DecChars[n + 1]>>
  ELSE DecDigits(n \div 10) \o <<DecChars[(n % 10) + 1]>>

\* 'message_table_{0:d}_0x{1:08x}'.format(message_file_key, lcid).  A table
\* name is a tuple: the fixed tables are <<"metadata">> and so on.
MessageTableName(message_file_key, lcid) ==
  <<"message_table", DecDigits(message_file_key), Hex8(lcid)>>

(***************************************************************************)
(* The database file on disk.  A store is [connectable, tables]:           *)
(* connectable says whether sqlite3.connect() succeeds on it, tables maps  *)
(* the name of every table that exists to its rows in query order; a row   *)
(* is a record of its columns.                                             *)
(***************************************************************************)
\* LCID 0x0409 is en-US.
DEFAULT_LCID == 1033

\* LCID 0x0407 (de-DE), a language other than the default one.
OTHER_LCID == 1031

SUPPORTED_VERSION == "20150315"

LogSource == "Application Error"

\* The key of the provider "Other Source", which every store holds.
OtherProviderKey == 9

ProviderKeys == {0, 7}

\* The raw message string stored for message identifier 1 in the message
\* table of a message file and a language.
RawMessage(message_file_key, lcid) ==
  IF message_file_key = 3
  THEN IF lcid = DEFAULT_LCID THEN <<"a", "%", "1">>
       ELSE <<"c", "%", "2", "!", "s", "!">>
  ELSE IF lcid = DEFAULT_LCID THEN <<"b", "{", "%", "%">>
       ELSE <<"d", "%", "n">>

SeqsUpTo(S, n) == UNION {[1..k -> S] : k \in 0..n}

\* n copies of v.
Copies(v, n) == [i \in 1..n |-> v]

MetadataRows(name, values) ==
  [i \in 1..Len(values) |-> [name |-> name, value |-> values[i]]]

\* The rows of a message table: choice -1 is "no such table" (not used here),
\* -2 is one row holding the empty string, n >= 0 is n rows for identifier 1.
MessageRows(message_file_key, lcid, choice) ==
  IF choice = -2
  THEN <<[message_identifier |-> Hex8(1), message_string |-> <<>>]>>
  ELSE Copies([message_identifier |-> Hex8(1),
               message_string |-> RawMessage(message_file_key, lcid)], choice)

EmptyTables == [t \in {} |-> <<>>]

Table(present, name, rows) == IF present THEN name :> rows ELSE EmptyTables

\* The metadata table with the given values of "version" and
\* "string_format".
Metadata(versions, formats) ==
  Some(MetadataRows("version", versions)
         \o MetadataRows("string_format", formats))

\* The rows that associate the message files, in order, with a provider key.
FilesOf(provider_key, message_files) ==
  [i \in 1..Len(message_files) |->
     [event_log_provider_key |-> provider_key,
      message_file_key |-> message_files[i]]]

\* A store: the metadata table (None: no such table), the provider table
\* with "Other Source" and the given keys for LogSource, the message file
\* rows, and a message table per choice.
MkStore(connectable, metadata, provider_keys, file_rows, choice) ==
  [connectable |-> connectable,
   tables |->
     Table(metadata # None, <<"metadata">>,
           IF metadata # None THEN metadata[1] ELSE <<>>)
     @@ (<<"event_log_providers">> :>
           (<<[log_source |-> "Other Source",
               event_log_provider_key |-> OtherProviderKey]>>
            \o [i \in 1..Len(provider_keys) |->
                  [log_source |-> LogSource,
                   event_log_provider_key |-> provider_keys[i]]]))
     @@ (<<"message_file_per_event_log_provider">> :>
           (<<[event_log_provider_key |-> OtherProviderKey,
               message_file_key |-> 4]>>
            \o file_rows))
     @@ Table(choice[1] # -1, MessageTableName(3, DEFAULT_LCID),
              MessageRows(3, DEFAULT_LCID, choice[1]))
     @@ Table(choice[2] # -1, MessageTableName(4, DEFAULT_LCID),
              MessageRows(4, DEFAULT_LCID, choice[2]))
     @@ Table(choice[3] # -1, MessageTableName(3, OTHER_LCID),
              MessageRows(3, OTHER_LCID, choice[3]))
     @@ Table(choice[4] # -1, MessageTableName(4, OTHER_LCID),
              MessageRows(4, OTHER_LCID, choice[4]))]

(***************************************************************************)
(* Sqlite3DatabaseFile.  The object is [connection, cursor, filename,      *)
(* read_only], each None until set.  The cursor, once created, holds the   *)
(* rows of its last execute() that were not fetched yet: there is one      *)
(* cursor per object, and every execute() on it replaces those rows.       *)
(***************************************************************************)
NewDatabaseFile ==
  [connection |-> None, cursor |-> None, filename |-> None,
   read_only |-> None]

\* A query condition 'column == "value"'; the empty condition is None.
Condition(column, value) == Some([column |-> column, value |-> value])

RECURSIVE SelectRows(_, _, _)
\* The rows of a table that satisfy the condition, each projected on the
\* requested columns, in the order of the table.
SelectRows(rows, column_names, condition) ==
  IF rows = <<>> THEN <<>>
  ELSE LET row == Head(rows)
           rest == SelectRows(Tail(rows), column_names, condition)
       IN IF condition = None \/ row[condition[1].column] = condition[1].value
          THEN <<[c \in column_names |-> row[c]]>> \o rest
          ELSE rest

\* self._cursor.execute('SELECT ... FROM table WHERE condition'): the
\* cursor drops what it held; sqlite3 raises OperationalError when the
\* table does not exist.
Execute(d, st, table_name, column_names, condition) ==
  IF table_name \in DOMAIN st.tables
  THEN [db |-> [d EXCEPT !.cursor =
                  Some(SelectRows(st.tables[table_name], column_names,
                                  condition))],
        out |-> Return(None)]
  ELSE [db |-> [d EXCEPT !.cursor = Some(<<>>)],
        out |-> Raise("OperationalError")]

\* Close that does not clear filename and read_only.
DatabaseFileClose_KeepFilename(d) ==
  IF d.connection = None
  THEN [db |-> d, out |-> Raise("RuntimeError")]
  ELSE [db |-> [d EXCEPT !.connection = None, !.cursor = None],
        out |-> Return(None)]

\* Sqlite3DatabaseFile.Close
DatabaseFileClose(d) ==
  IF d.connection = None
  THEN [db |-> d, out |-> Raise("RuntimeError")]
  ELSE [db |-> [connection |-> None, cursor |-> None, filename |-> None,
                read_only |-> None],
        out |-> Return(None)]

\* Sqlite3DatabaseFile.HasTable: _HAS_TABLE_QUERY is executed on the one
\* cursor and fetchone() takes its first row.
HasTable(d, st, table_name) ==
  IF d.connection = None
  THEN [db |-> d, out |-> Raise("RuntimeError")]
  ELSE LET found == IF table_name \in DOMAIN st.tables
                    THEN <<[name |-> table_name]>> ELSE <<>>
       IN IF found # <<>>
          THEN [db |-> [d EXCEPT !.cursor = Some(Tail(found))],
                out |-> Return(TRUE)]
          ELSE [db |-> [d EXCEPT !.cursor = Some(<<>>)],
                out |-> Return(FALSE)]

\* list(Sqlite3DatabaseFile.GetValues(...)): the generator is run to its
\* end at once, so every row of the query is fetched from the cursor.
ListGetValues(d, st, table_name, column_names, condition) ==
  IF d.connection = None
  THEN [db |-> d, out |-> Raise("RuntimeError")]
  ELSE Bind(Execute(d, st, table_name, column_names, condition),
         LAMBDA e :
           IF e.out.exc # ""
           THEN e
           ELSE [db |-> [e.db EXCEPT !.cursor = Some(<<>>)],
                 out |-> Return(e.db.cursor[1])])

\* Open that sets filename and read_only before it checks the connection.
DatabaseFileOpen_AssignFirst(d, st, filename, read_only) ==
  IF d.connection # None
  THEN [db |-> [d EXCEPT !.filename = Some(filename),
                         !.read_only = Some(read_only)],
        out |-> Raise("RuntimeError")]
  ELSE IF ~st.connectable
       THEN [db |-> [d EXCEPT !.filename = Some(filename),
                              !.read_only = Some(read_only)],
             out |-> Return(FALSE)]
       ELSE [db |-> [connection |-> Some("connection"),
                     cursor |-> Some(<<>>),
                     filename |-> Some(filename),
                     read_only |-> Some(read_only)],
             out |-> Return(TRUE)]

\* Sqlite3DatabaseFile.Open: sqlite3.connect() raises OperationalError on a
\* file it cannot open; a connection and its cursor are never falsy.
DatabaseFileOpen(d, st, filename, read_only) ==
  IF d.connection # None
  THEN [db |-> d, out |-> Raise("RuntimeError")]
  ELSE IF ~st.connectable
       THEN [db |-> [d EXCEPT !.filename = Some(filename),
                              !.read_only = Some(read_only)],
             out |-> Return(FALSE)]
       ELSE [db |-> [connection |-> Some("connection"),
                     cursor |-> Some(<<>>),
                     filename |-> Some(filename),
                     read_only |-> Some(read_only)],
             out |-> Return(TRUE)]

\* next() on the cursor, as "for row in self._cursor" does: the first row
\* the cursor still holds, or None when it holds none (StopIteration).
CursorNext(d) ==
  IF d.cursor[1] = <<>>
  THEN [db |-> d, out |-> Return(None)]
  ELSE [db |-> [d EXCEPT !.cursor = Some(Tail(d.cursor[1]))],
        out |-> Return(Some(Head(d.cursor[1])))]

\* The first next() on the generator of Sqlite3DatabaseFile.GetValues, up to
\* the loop over the cursor: the body of a generator function runs from its
\* start only then, so the check of the connection is made here.
GetValuesStart(d, st, table_name, column_names, condition) ==
  IF d.connection = None
  THEN [db |-> d, out |-> Raise("RuntimeError")]
  ELSE Execute(d, st, table_name, column_names, condition)

(***************************************************************************)
(* WinevtResourcesSqlite3DatabaseReader._ReformatMessageString: four       *)
(* regular expression substitutions, each scanning from left to right for  *)
(* non-overlapping matches.                                                *)
(***************************************************************************)
DigitValue(c) == CHOOSE i \in 0..9 : DecChars[i + 1] = c

Drop(s, n) == SubSeq(s, n + 1, Len(s))

RECURSIVE WhiteSpaceSpecifierSub(_)
\* _WHITE_SPACE_SPECIFIER_RE.sub('', s) with the pattern (%[0b]|[\r\n]).
WhiteSpaceSpecifierSub(s) ==
  IF s = <<>> THEN <<>>
  ELSE IF Len(s) >= 2 /\ s[1] = "%" /\ s[2] \in {"0", "b"}
       THEN WhiteSpaceSpecifierSub(Drop(s, 2))
       ELSE IF s[1] \in {"\r", "\n"}
            THEN WhiteSpaceSpecifierSub(Drop(s, 1))
            ELSE <<s[1]>> \o WhiteSpaceSpecifierSub(Drop(s, 1))

RECURSIVE TextSpecifierSub_AnyCharacter(_)
\* The substitution of text specifiers with a pattern that takes any
\* character after the %.
TextSpecifierSub_AnyCharacter(s) ==
  IF s = <<>> THEN <<>>
  ELSE IF Len(s) >= 2 /\ s[1] = "%"
       THEN <<"\\", s[2]>> \o TextSpecifierSub_AnyCharacter(Drop(s, 2))
       ELSE <<s[1]>> \o TextSpecifierSub_AnyCharacter(Drop(s, 1))

RECURSIVE TextSpecifierSub(_)
\* _TEXT_SPECIFIER_RE.sub(r'\\\1', s) with the pattern %([ .!%nrt]).
TextSpecifierSub(s) ==
  IF s = <<>> THEN <<>>
  ELSE IF Len(s) >= 2 /\ s[1] = "%"
            /\ s[2] \in {" ", ".", "!", "%", "n", "r", "t"}
       THEN <<"\\", s[2]>> \o TextSpecifierSub(Drop(s, 2))
       ELSE <<s[1]>> \o TextSpecifierSub(Drop(s, 1))

RECURSIVE CurlyBracketsSub_KeepDoubled(_)
\* The doubling of curly brackets with a pattern that leaves a bracket
\* that is doubled already as it is.
CurlyBracketsSub_KeepDoubled(s) ==
  IF s = <<>> THEN <<>>
  ELSE IF Len(s) >= 2 /\ s[1] \in {"{", "}"} /\ s[2] = s[1]
       THEN <<s[1], s[1]>> \o CurlyBracketsSub_KeepDoubled(Drop(s, 2))
       ELSE IF s[1] \in {"{", "}"}
            THEN <<s[1], s[1]>> \o CurlyBracketsSub_KeepDoubled(Drop(s, 1))
            ELSE <<s[1]>> \o CurlyBracketsSub_KeepDoubled(Drop(s, 1))

RECURSIVE CurlyBracketsSub(_)
\* _CURLY_BRACKETS.sub(r'\1\1', s) with the pattern ([\{\}]).
CurlyBracketsSub(s) ==
  IF s = <<>> THEN <<>>
  ELSE IF s[1] \in {"{", "}"}
       THEN <<s[1], s[1]>> \o CurlyBracketsSub(Drop(s, 1))
       ELSE <<s[1]>> \o CurlyBracketsSub(Drop(s, 1))

\* _PlaceHolderSpecifierReplacer: '{{{0:d}:s}}'.format(int(group, 10) - 1).
PlaceHolderSpecifierReplacer(group) ==
  LET number == IF Len(group) = 1 THEN DigitValue(group[1])
                ELSE 10 * DigitValue(group[1]) + DigitValue(group[2])
  IN <<"{">> \o DecDigits(number - 1) \o <<":", "s", "}">>

\* The length of the longest prefix of s among the given one-character
\* alternatives taken in order, each optional: [!]?[s]?[!]?.
OptionalPrefix(s) ==
  LET a == IF Len(s) >= 1 /\ s[1] = "!" THEN 1 ELSE 0
      b == IF Len(s) >= a + 1 /\ s[a + 1] = "s" THEN a + 1 ELSE a
  IN IF Len(s) >= b + 1 /\ s[b + 1] = "!" THEN b + 1 ELSE b

RECURSIVE PlaceHolderSpecifierSub(_)
\* _PLACE_HOLDER_SPECIFIER_RE.sub(_PlaceHolderSpecifierReplacer, s) with the
\* pattern %([1-9][0-9]?)[!]?[s]?[!]?.
PlaceHolderSpecifierSub(s) ==
  IF s = <<>> THEN <<>>
  ELSE IF Len(s) >= 2 /\ s[1] = "%"
            /\ s[2] \in {"1", "2", "3", "4", "5", "6", "7", "8", "9"}
       THEN LET n == IF Len(s) >= 3
                          /\ s[3] \in {DecChars[i] : i \in 1..10}
                     THEN 2 ELSE 1
                after == Drop(s, 1 + n)
            IN PlaceHolderSpecifierReplacer(SubSeq(s, 2, 1 + n))
                 \o PlaceHolderSpecifierSub(
                      Drop(after, OptionalPrefix(after)))
       ELSE <<s[1]>> \o PlaceHolderSpecifierSub(Drop(s, 1))

\* _ReformatMessageString with the curly brackets doubled after the
\* placeholders were converted.
ReformatMessageString_BracketsLast(message_string) ==
  IF ~TruthyStr(message_string) THEN None
  ELSE Some(CurlyBracketsSub(PlaceHolderSpecifierSub(TextSpecifierSub(
              WhiteSpaceSpecifierSub(message_string[1])))))

\* WinevtResourcesSqlite3DatabaseReader._ReformatMessageString, on an
\* optional message string.
ReformatMessageString(message_string) ==
  IF ~TruthyStr(message_string) THEN None
  ELSE Some(PlaceHolderSpecifierSub(CurlyBracketsSub(TextSpecifierSub(
              WhiteSpaceSpecifierSub(message_string[1])))))

(***************************************************************************)
(* WinevtResourcesSqlite3DatabaseReader.  The object is [database_file,    *)
(* string_format].  The lookups below take and give back the database      *)
(* file, whose cursor they use.                                            *)
(***************************************************************************)
NewReader == [database_file |-> NewDatabaseFile, string_format |-> "wrc"]

\* _GetEventLogProviderKey taking the first row when several rows match.
GetEventLogProviderKey_FirstRow(d, st, log_source) ==
  Bind(ListGetValues(d, st, <<"event_log_providers">>,
                     {"event_log_provider_key"},
                     Condition("log_source", log_source)),
    LAMBDA v :
      IF v.out.exc # "" THEN v
      ELSE IF Len(v.out.val) = 0 THEN [db |-> v.db, out |-> Return(None)]
      ELSE [db |-> v.db,
            out |-> Return(Some(v.out.val[1].event_log_provider_key))])

\* WinevtResourcesSqlite3DatabaseReader._GetEventLogProviderKey
GetEventLogProviderKey(d, st, log_source) ==
  Bind(ListGetValues(d, st, <<"event_log_providers">>,
                     {"event_log_provider_key"},
                     Condition("log_source", log_source)),
    LAMBDA v :
      IF v.out.exc # "" THEN v
      ELSE IF Len(v.out.val) = 0 THEN [db |-> v.db, out |-> Return(None)]
      ELSE IF Len(v.out.val) = 1
           THEN [db |-> v.db,
                 out |-> Return(Some(v.out.val[1].event_log_provider_key))]
           ELSE [db |-> v.db, out |-> Raise("RuntimeError")])

\* _GetMessage without the check that the message table exists.
GetMessageFromTable_NoHasTable(d, st, message_file_key, lcid, message_identifier) ==
  Bind(ListGetValues(d, st, MessageTableName(message_file_key, lcid),
                     {"message_string"},
                     Condition("message_identifier",
                               Hex8(message_identifier))),
    LAMBDA v :
      IF v.out.exc # "" THEN v
      ELSE IF Len(v.out.val) = 0 THEN [db |-> v.db, out |-> Return(None)]
      ELSE IF Len(v.out.val) = 1
           THEN [db |-> v.db,
                 out |-> Return(Some(v.out.val[1].message_string))]
           ELSE [db |-> v.db, out |-> Raise("RuntimeError")])

\* WinevtResourcesSqlite3DatabaseReader._GetMessage
GetMessageFromTable(d, st, message_file_key, lcid, message_identifier) ==
  Bind(HasTable(d, st, MessageTableName(message_file_key, lcid)),
    LAMBDA h :
      IF h.out.exc # "" THEN h
      ELSE IF ~h.out.val THEN [db |-> h.db, out |-> Return(None)]
      ELSE Bind(ListGetValues(h.db, st,
                  MessageTableName(message_file_key, lcid),
                  {"message_string"},
                  Condition("message_identifier", Hex8(message_identifier))),
             LAMBDA v :
               IF v.out.exc # "" THEN v
               ELSE IF Len(v.out.val) = 0
                    THEN [db |-> v.db, out |-> Return(None)]
               ELSE IF Len(v.out.val) = 1
                    THEN [db |-> v.db,
                          out |-> Return(Some(v.out.val[1].message_string))]
                    ELSE [db |-> v.db, out |-> Raise("RuntimeError")]))

\* WinevtResourcesSqlite3DatabaseReader._GetMessageFileKeys, the first
\* next() up to its loop: the generator of GetValues is started, which
\* executes the query on the cursor of the database file.
GetMessageFileKeysStart(d, st, event_log_provider_key) ==
  GetValuesStart(d, st, <<"message_file_per_event_log_provider">>,
                 {"message_file_key"},
                 Condition("event_log_provider_key", event_log_provider_key))

\* WinevtResourcesSqlite3DatabaseReader._GetMessageFileKeys, a next() in its
\* loop: the next row is taken from the cursor of the database file as it
\* is then, and its message_file_key is yielded; None at the end.
GetMessageFileKeysNext(d) ==
  Bind(CursorNext(d),
    LAMBDA n :
      IF n.out.val = None THEN n
      ELSE [db |-> n.db,
            out |-> Return(Some(n.out.val[1].message_file_key))])

RECURSIVE GetMessageLoop(_, _, _, _, _)
\* The loop of GetMessage over the generator of message file keys, entered
\* with the value message_string has so far.
GetMessageLoop(d, st, lcid, message_identifier, message_string) ==
  Bind(GetMessageFileKeysNext(d),
    LAMBDA k :
      IF k.out.val = None
      THEN [db |-> k.db, out |-> Return(message_string)]
      ELSE Bind(GetMessageFromTable(k.db, st, k.out.val[1], lcid,
                                    message_identifier),
             LAMBDA m :
               IF m.out.exc # "" THEN m
               ELSE IF TruthyStr(m.out.val) THEN m
               ELSE GetMessageLoop(m.db, st, lcid, message_identifier,
                                   m.out.val)))

\* GetMessage that reformats the message string it has reformatted.
GetMessage_ReformatTwice(r, st, log_source, lcid, message_identifier) ==
  Bind(GetEventLogProviderKey(r.database_file, st, log_source),
    LAMBDA k :
      IF k.out.exc # "" \/ ~TruthyInt(k.out.val)
      THEN [reader |-> [r EXCEPT !.database_file = k.db],
            out |-> IF k.out.exc # "" THEN k.out ELSE Return(None)]
      ELSE Bind(GetMessageFileKeysStart(k.db, st, k.out.val[1]),
             LAMBDA g :
               Bind(IF g.out.exc # "" THEN g
                    ELSE GetMessageLoop(g.db, st, lcid, message_identifier,
                                        None),
                 LAMBDA m :
                   [reader |-> [r EXCEPT !.database_file = m.db],
                    out |-> IF m.out.exc # "" THEN m.out
                            ELSE IF r.string_format = "wrc"
                                 THEN Return(ReformatMessageString(
                                               ReformatMessageString(
                                                 m.out.val)))
                                 ELSE m.out])))

\* GetMessage that closes the database file once it has made its lookups.
GetMessage_CloseWhenDone(r, st, log_source, lcid, message_identifier) ==
  Bind(GetEventLogProviderKey(r.database_file, st, log_source),
    LAMBDA k :
      IF k.out.exc # "" \/ ~TruthyInt(k.out.val)
      THEN [reader |-> [r EXCEPT !.database_file = k.db],
            out |-> IF k.out.exc # "" THEN k.out ELSE Return(None)]
      ELSE Bind(GetMessageFileKeysStart(k.db, st, k.out.val[1]),
             LAMBDA g :
               Bind(IF g.out.exc # "" THEN g
                    ELSE GetMessageLoop(g.db, st, lcid, message_identifier,
                                        None),
                 LAMBDA m :
                   [reader |-> [r EXCEPT !.database_file
                                  = DatabaseFileClose(m.db).db],
                    out |-> IF m.out.exc # "" THEN m.out
                            ELSE IF r.string_format = "wrc"
                                 THEN Return(ReformatMessageString(m.out.val))
                                 ELSE m.out])))

\* WinevtResourcesSqlite3DatabaseReader.GetMessage; gives [reader, out].
GetMessage(r, st, log_source, lcid, message_identifier) ==
  Bind(GetEventLogProviderKey(r.database_file, st, log_source),
    LAMBDA k :
      IF k.out.exc # "" \/ ~TruthyInt(k.out.val)
      THEN [reader |-> [r EXCEPT !.database_file = k.db],
            out |-> IF k.out.exc # "" THEN k.out ELSE Return(None)]
      ELSE Bind(GetMessageFileKeysStart(k.db, st, k.out.val[1]),
             LAMBDA g :
               Bind(IF g.out.exc # "" THEN g
                    ELSE GetMessageLoop(g.db, st, lcid, message_identifier,
                                        None),
                 LAMBDA m :
                   [reader |-> [r EXCEPT !.database_file = m.db],
                    out |-> IF m.out.exc # "" THEN m.out
                            ELSE IF r.string_format = "wrc"
                                 THEN Return(ReformatMessageString(m.out.val))
                                 ELSE m.out])))

\* WinevtResourcesSqlite3DatabaseReader.GetMetadataAttribute
GetMetadataAttribute(d, st, attribute_name) ==
  Bind(HasTable(d, st, <<"metadata">>),
    LAMBDA h :
      IF h.out.exc # "" THEN h
      ELSE IF ~h.out.val THEN [db |-> h.db, out |-> Return(None)]
      ELSE Bind(ListGetValues(h.db, st, <<"metadata">>, {"value"},
                              Condition("name", attribute_name)),
             LAMBDA v :
               IF v.out.exc # "" THEN v
               ELSE IF Len(v.out.val) = 0
                    THEN [db |-> v.db, out |-> Return(None)]
               ELSE IF Len(v.out.val) = 1
                    THEN [db |-> v.db,
                          out |-> Return(Some(v.out.val[1].value))]
                    ELSE [db |-> v.db, out |-> Raise("RuntimeError")]))

\* The check of the string format in Open, once the version was accepted.
\* Gives [reader, out].
OpenStringFormat(r, d, st) ==
  Bind(GetMetadataAttribute(d, st, "string_format"),
    LAMBDA f :
      IF f.out.exc # ""
      THEN [reader |-> [r EXCEPT !.database_file = f.db], out |-> f.out]
      ELSE Bind(IF ~TruthyName(f.out.val) THEN "wrc" ELSE f.out.val[1],
             LAMBDA string_format :
               IF string_format \notin {"pep3101", "wrc"}
               THEN [reader |-> [r EXCEPT !.database_file = f.db],
                     out |-> Raise("RuntimeError")]
               ELSE [reader |-> [database_file |-> f.db,
                                 string_format |-> string_format],
                     out |-> Return(TRUE)]))

\* Open without the check of the version: the string format is read as soon
\* as the database file is open.
ReaderOpen_NoVersionCheck(r, st, filename) ==
  Bind(DatabaseFileOpen(r.database_file, st, filename, TRUE),
    LAMBDA o :
      IF o.out.exc # "" \/ ~o.out.val
      THEN [reader |-> [r EXCEPT !.database_file = o.db], out |-> o.out]
      ELSE OpenStringFormat(r, o.db, st))

\* WinevtResourcesSqlite3DatabaseReader.Open; gives [reader, out].  With no
\* version the message of the RuntimeError cannot be formatted ('{0:s}' of
\* None), and the TypeError of that is what is raised.
ReaderOpen(r, st, filename) ==
  Bind(DatabaseFileOpen(r.database_file, st, filename, TRUE),
    LAMBDA o :
      IF o.out.exc # "" \/ ~o.out.val
      THEN [reader |-> [r EXCEPT !.database_file = o.db], out |-> o.out]
      ELSE Bind(GetMetadataAttribute(o.db, st, "version"),
             LAMBDA v :
               IF v.out.exc # ""
               THEN [reader |-> [r EXCEPT !.database_file = v.db],
                     out |-> v.out]
               ELSE IF ~TruthyName(v.out.val)
                       \/ v.out.val[1] # SUPPORTED_VERSION
                    THEN [reader |-> [r EXCEPT !.database_file = v.db],
                          out |-> IF v.out.val = None
                                  THEN Raise("TypeError")
                                  ELSE Raise("RuntimeError")]
                    ELSE OpenStringFormat(r, v.db, st)))

\* WinevtResourcesSqlite3DatabaseReader.Close; gives [reader, out].
ReaderClose(r) ==
  Bind(DatabaseFileClose(r.database_file),
    LAMBDA c : [reader |-> [r EXCEPT !.database_file = c.db], out |-> c.out])

(***************************************************************************)
(* WinevtResourcesHelper.  The object is [data_location, lcid, reader];    *)
(* reader is _winevt_database_reader, None or the reader object.           *)
(***************************************************************************)
\* os.path.join(self._data_location, self._WINEVT_RC_DATABASE)
DatabasePath == "data/winevt-rc.db"

\* WinevtResourcesHelper.__init__, lcid an optional integer.
NewHelper(data_location, lcid) ==
  [data_location |-> data_location,
   lcid |-> IF TruthyInt(lcid) THEN lcid[1] ELSE DEFAULT_LCID,
   reader |-> None]

\* WinevtResourcesHelper._GetWinevtRcDatabaseReader; gives [helper, out,
\* opened]: out.val is the optional reader returned, opened tells whether
\* Open was called on a reader.  A reader object is never falsy.  When Open
\* raises, the new reader stays assigned to _winevt_database_reader.
GetWinevtRcDatabaseReader(h, st, is_file) ==
  IF h.reader = None /\ TruthyName(h.data_location)
  THEN IF ~is_file
       THEN [helper |-> h, out |-> Return(None), opened |-> FALSE]
       ELSE Bind(ReaderOpen(NewReader, st, DatabasePath),
              LAMBDA o :
                IF o.out.exc # ""
                THEN [helper |-> [h EXCEPT !.reader = Some(o.reader)],
                      out |-> o.out, opened |-> TRUE]
                ELSE IF ~o.out.val
                     THEN [helper |-> [h EXCEPT !.reader = None],
                           out |-> Return(None), opened |-> TRUE]
                     ELSE [helper |-> [h EXCEPT !.reader = Some(o.reader)],
                           out |-> Return(Some(o.reader)), opened |-> TRUE])
  ELSE [helper |-> h, out |-> Return(h.reader), opened |-> FALSE]

\* The lookups of GetMessageString without the fallback: the configured
\* language only.
GetMessageStringLookups_NoFallback(h, r, st, log_source, message_identifier) ==
  Bind(GetMessage(r, st, log_source, h.lcid, message_identifier),
    LAMBDA first :
      [reader |-> first.reader, out |-> first.out, lookups |-> <<h.lcid>>])

\* The lookups of GetMessageString on the reader it got: the configured
\* language first when it is not the default one.  Gives [reader, out,
\* lookups], lookups being the LCIDs GetMessage was called with, in order.
GetMessageStringLookups(h, r, st, log_source, message_identifier) ==
  IF h.lcid # DEFAULT_LCID
  THEN Bind(GetMessage(r, st, log_source, h.lcid, message_identifier),
         LAMBDA first :
           IF first.out.exc # "" \/ TruthyStr(first.out.val)
           THEN [reader |-> first.reader, out |-> first.out,
                 lookups |-> <<h.lcid>>]
           ELSE Bind(GetMessage(first.reader, st, log_source, DEFAULT_LCID,
                                message_identifier),
                  LAMBDA last :
                    [reader |-> last.reader, out |-> last.out,
                     lookups |-> <<h.lcid, DEFAULT_LCID>>]))
  ELSE Bind(GetMessage(r, st, log_source, DEFAULT_LCID, message_identifier),
         LAMBDA last :
           [reader |-> last.reader, out |-> last.out,
            lookups |-> <<DEFAULT_LCID>>])

\* WinevtResourcesHelper.GetMessageString; gives [helper, out, opened,
\* lookups].
GetMessageString(h, st, is_file, log_source, message_identifier) ==
  Bind(GetWinevtRcDatabaseReader(h, st, is_file),
    LAMBDA g :
      IF g.out.exc # "" \/ g.out.val = None
      THEN [helper |-> g.helper,
            out |-> IF g.out.exc # "" THEN g.out ELSE Return(None),
            opened |-> g.opened, lookups |-> <<>>]
      ELSE Bind(GetMessageStringLookups(g.helper, g.out.val[1], st,
                                        log_source, message_identifier),
             LAMBDA m :
               [helper |-> [g.helper EXCEPT !.reader = Some(m.reader)],
                out |-> m.out, opened |-> g.opened, lookups |-> m.lookups]))

(***************************************************************************)
(* The stores the model is run on.                                         *)
(***************************************************************************)
\* The orders in which the message files 3 and 4 can be associated.
MessageFileOrders == {<<>>, <<3>>, <<4>>, <<3, 4>>, <<4, 3>>}

\* The message tables: those of the default language take every choice (no
\* table, one empty string, 0..MaxRows rows), those of the other language
\* are both absent or both hold one row.
TableChoices ==
  {<<a, b, c, c>> : a \in -2..MaxRows, b \in -1..MaxRows, c \in {-1, 1}}

\* The provider rows of LogSource: 0..MaxRows rows of one key.
ProviderRows == {Copies(k, n) : k \in ProviderKeys, n \in 0..MaxRows}

\* A store with a supported version, the given string format and content.
ContentStore(string_format, provider_keys, message_files, choice) ==
  MkStore(TRUE, Metadata(<<SUPPORTED_VERSION>>, <<string_format>>),
          provider_keys,
          FilesOf(IF provider_keys = <<>> THEN 7 ELSE provider_keys[1],
                  message_files),
          choice)

\* Stores with a supported version and string format: every order of the
\* message files with every choice of message tables, every choice of
\* provider rows, and some of these in the format that is not reformatted.
ContentStores ==
  {ContentStore("wrc", <<7>>, f, t) :
     f \in MessageFileOrders, t \in TableChoices}
  \cup {ContentStore("wrc", p, f, <<1, 1, 1, 1>>) :
          p \in ProviderRows, f \in {<<3>>, <<4, 3>>}}
  \cup {ContentStore("pep3101", <<7>>, f, <<a, 1, 1, 1>>) :
          f \in MessageFileOrders, a \in -2..MaxRows}

\* Stores with any metadata, and one message for LogSource.
MetadataStores ==
  {MkStore(TRUE, Metadata(m[1], m[2]), <<7>>, FilesOf(7, <<3>>),
           <<1, -1, -1, -1>>) :
     m \in (SeqsUpTo({SUPPORTED_VERSION, "20140101"}, MaxRows)
              \cup {<<"">>})
           \X (SeqsUpTo({"pep3101", "printf"}, MaxRows)
                 \cup {<<"wrc">>, <<"">>})}

\* Stores without a metadata table, and files sqlite3 cannot open.
OtherStores ==
  {MkStore(c, None, <<7>>, FilesOf(7, <<3>>), <<1, -1, -1, -1>>) :
     c \in BOOLEAN}
  \cup {MkStore(FALSE, Metadata(<<SUPPORTED_VERSION>>, <<>>), <<7>>,
                FilesOf(7, <<3>>), <<1, -1, -1, -1>>)}

Stores == ContentStores \cup MetadataStores \cup OtherStores

(***************************************************************************)
(* The state machine.  Every action is one call on one of the objects and  *)
(* records the call and its outcome in ret; the store never changes.       *)
(***************************************************************************)
\* A call record: the method, its arguments and its outcome; for a call of
\* GetMessageString also whether it called Open on a reader (opened), the
\* LCIDs it called GetMessage with (lookups), whether an earlier call on
\* the helper raised out of Open (fatal_before), and what the first call on
\* the helper found when it went for the reader (first): "missing" with no
\* data location or no file, "file" otherwise.
Call(op, args, out) ==
  [op |-> op, args |-> args, out |-> out, opened |-> FALSE,
   lookups |-> <<>>, fatal_before |-> FALSE, first |-> ""]

NoCall == Call("", <<>>, Return(None))

\* No generator yet.  yielded is a history field: the rows the generator
\* has yielded so far.
NoGenerator == [state |-> "none", query |-> None, yielded |-> <<>>]

\* Every file name names a copy of the store.
Filenames == {DatabasePath, "copy/winevt-rc.db"}

TableNames ==
  {<<"metadata">>, <<"event_log_providers">>,
   <<"message_file_per_event_log_provider">>,
   MessageTableName(3, DEFAULT_LCID), MessageTableName(4, DEFAULT_LCID)}

\* The queries made directly on the database file, by name.
QueryNames == {"providers", "files", "version"}

Query(name) ==
  CASE name = "providers" ->
         [table |-> <<"event_log_providers">>,
          columns |-> {"event_log_provider_key"}, condition |-> None]
    [] name = "files" ->
         [table |-> <<"message_file_per_event_log_provider">>,
          columns |-> {"message_file_key"},
          condition |-> Condition("event_log_provider_key", 7)]
    [] name = "version" ->
         [table |-> <<"metadata">>, columns |-> {"value"},
          condition |-> Condition("name", "version")]

(***************************************************************************)
(* Calls on a Sqlite3DatabaseFile.                                         *)
(***************************************************************************)
DbOpen(filename, read_only) ==
  LET o == DatabaseFileOpen(db, store, filename, read_only)
  IN /\ db' = o.db
     /\ ret' = Call("Open", <<filename, read_only>>, o.out)
     /\ UNCHANGED <<store, isfile, gen, reader, helper>>

\* Close; a generator that was iterating over the cursor keeps that cursor,
\* whose connection is now closed.
DbClose ==
  LET c == DatabaseFileClose(db)
  IN /\ db' = c.db
     /\ ret' = Call("Close", <<>>, c.out)
     /\ gen' = IF c.out.exc = "" /\ gen.state = "suspended"
               THEN [gen EXCEPT !.state = "orphaned"] ELSE gen
     /\ UNCHANGED <<store, isfile, reader, helper>>

DbHasTable(table_name) ==
  LET h == HasTable(db, store, table_name)
  IN /\ db' = h.db
     /\ ret' = Call("HasTable", <<table_name>>, h.out)
     /\ UNCHANGED <<store, isfile, gen, reader, helper>>

\* GetValues(...): the call of a generator function only makes the
\* generator object; none of its body runs.
DbGetValues(query) ==
  /\ gen' = [state |-> "created", query |-> Some(Query(query)),
             yielded |-> <<>>]
  /\ ret' = Call("GetValues", <<query>>, Return(Some("generator")))
  /\ UNCHANGED <<store, isfile, db, reader, helper>>

\* list(GetValues(...)) on a new generator.
DbListGetValues(query) ==
  LET v == ListGetValues(db, store, Query(query).table,
                         Query(query).columns, Query(query).condition)
  IN /\ db' = v.db
     /\ ret' = Call("list(GetValues)", <<query>>, v.out)
     /\ UNCHANGED <<store, isfile, gen, reader, helper>>

\* The first next() on the generator: its body runs from the start to the
\* first yield.  sqlite3 raises OperationalError for a missing table.
GenStart ==
  /\ gen.state = "created"
  /\ LET q == gen.query[1]
         e == GetValuesStart(db, store, q.table, q.columns, q.condition)
         n == CursorNext(e.db)
     IN IF e.out.exc # ""
        THEN /\ db' = e.db
             /\ gen' = [gen EXCEPT !.state = "finished"]
             /\ ret' = Call("GetValues.start", <<>>, e.out)
        ELSE /\ db' = n.db
             /\ gen' = [gen EXCEPT !.state = IF n.out.val = None
                                             THEN "finished"
                                             ELSE "suspended",
                                   !.yielded = @ \o n.out.val]
             /\ ret' = Call("GetValues.start", <<>>, n.out)
  /\ UNCHANGED <<store, isfile, reader, helper>>

\* A later next() on the generator: the next row of the cursor as it is
\* now.  sqlite3 raises ProgrammingError when the connection of the cursor
\* was closed.
GenNext ==
  /\ gen.state \in {"suspended", "orphaned"}
  /\ LET n == CursorNext(db)
     IN IF gen.state = "orphaned"
        THEN /\ db' = db
             /\ gen' = [gen EXCEPT !.state = "finished"]
             /\ ret' = Call("GetValues.next", <<>>,
                            Raise("ProgrammingError"))
        ELSE /\ db' = n.db
             /\ gen' = [gen EXCEPT !.state = IF n.out.val = None
                                             THEN "finished"
                                             ELSE "suspended",
                                   !.yielded = @ \o n.out.val]
             /\ ret' = Call("GetValues.next", <<>>, n.out)
  /\ UNCHANGED <<store, isfile, reader, helper>>

\* The stores the database file is used on.
AccessorStores ==
  OtherStores
  \cup {MkStore(TRUE, Metadata(<<SUPPORTED_VERSION>>, <<"wrc">>),
                Copies(7, n), FilesOf(7, f), <<1, 1, -1, -1>>) :
          n \in 0..MaxRows, f \in MessageFileOrders}

InitAccessor ==
  /\ store \in AccessorStores
  /\ isfile = TRUE
  /\ db = NewDatabaseFile
  /\ gen = NoGenerator
  /\ reader = NewReader
  /\ helper = NewHelper(None, None)
  /\ ret = NoCall

NextAccessor ==
  \/ \E filename \in Filenames, read_only \in BOOLEAN :
       DbOpen(filename, read_only)
  \/ DbClose
  \/ \E table_name \in TableNames : DbHasTable(table_name)
  \/ \E query \in QueryNames : DbGetValues(query)
  \/ \E query \in QueryNames : DbListGetValues(query)
  \/ GenStart
  \/ GenNext

SpecAccessor == InitAccessor /\ [][NextAccessor]_vars

(***************************************************************************)
(* Calls on a WinevtResourcesSqlite3DatabaseReader.                        *)
(***************************************************************************)
RdOpen(filename) ==
  LET o == ReaderOpen(reader, store, filename)
  IN /\ reader' = o.reader
     /\ ret' = Call("Open", <<filename>>, o.out)
     /\ UNCHANGED <<store, isfile, db, gen, helper>>

RdClose ==
  LET c == ReaderClose(reader)
  IN /\ reader' = c.reader
     /\ ret' = Call("Close", <<>>, c.out)
     /\ UNCHANGED <<store, isfile, db, gen, helper>>

RdGetMessage(log_source, lcid, message_identifier) ==
  LET m == GetMessage(reader, store, log_source, lcid, message_identifier)
  IN /\ reader' = m.reader
     /\ ret' = Call("GetMessage", <<log_source, lcid, message_identifier>>,
                    m.out)
     /\ UNCHANGED <<store, isfile, db, gen, helper>>

RdGetMetadataAttribute(attribute_name) ==
  LET a == GetMetadataAttribute(reader.database_file, store, attribute_name)
  IN /\ reader' = [reader EXCEPT !.database_file = a.db]
     /\ ret' = Call("GetMetadataAttribute", <<attribute_name>>, a.out)
     /\ UNCHANGED <<store, isfile, db, gen, helper>>

RdGetEventLogProviderKey(log_source) ==
  LET k == GetEventLogProviderKey(reader.database_file, store, log_source)
  IN /\ reader' = [reader EXCEPT !.database_file = k.db]
     /\ ret' = Call("_GetEventLogProviderKey", <<log_source>>, k.out)
     /\ UNCHANGED <<store, isfile, db, gen, helper>>

RdGetMessageFromTable(message_file_key, lcid, message_identifier) ==
  LET m == GetMessageFromTable(reader.database_file, store,
                               message_file_key, lcid, message_identifier)
  IN /\ reader' = [reader EXCEPT !.database_file = m.db]
     /\ ret' = Call("_GetMessage",
                    <<message_file_key, lcid, message_identifier>>, m.out)
     /\ UNCHANGED <<store, isfile, db, gen, helper>>

\* The log sources looked up: one the stores may hold, one they never hold.
LookupSources == {LogSource, "Missing Source"}

\* The calls of GetMessage: <<log_source, lcid, message_identifier>>.
Lookups ==
  {<<LogSource, DEFAULT_LCID, 1>>, <<LogSource, OTHER_LCID, 1>>,
   <<LogSource, DEFAULT_LCID, 2>>, <<"Missing Source", DEFAULT_LCID, 1>>}

\* The calls of _GetMessage: <<message_file_key, lcid, message_identifier>>.
TableLookups ==
  {<<3, DEFAULT_LCID, 1>>, <<4, DEFAULT_LCID, 1>>, <<3, OTHER_LCID, 1>>,
   <<3, DEFAULT_LCID, 2>>}

InitReader ==
  /\ store \in Stores
  /\ isfile = TRUE
  /\ db = NewDatabaseFile
  /\ gen = NoGenerator
  /\ reader = NewReader
  /\ helper = NewHelper(None, None)
  /\ ret = NoCall

NextReader ==
  \/ \E filename \in Filenames : RdOpen(filename)
  \/ RdClose
  \/ \E a \in Lookups : RdGetMessage(a[1], a[2], a[3])
  \/ \E attribute_name \in {"version", "string_format"} :
       RdGetMetadataAttribute(attribute_name)
  \/ \E log_source \in LookupSources : RdGetEventLogProviderKey(log_source)
  \/ \E a \in TableLookups : RdGetMessageFromTable(a[1], a[2], a[3])

SpecReader == InitReader /\ [][NextReader]_vars

(***************************************************************************)
(* Calls on a WinevtResourcesHelper, and the database file appearing in or *)
(* disappearing from the data location between two calls.                  *)
(***************************************************************************)
HpGetMessageString(log_source, message_identifier) ==
  LET m == GetMessageString(helper, store, isfile, log_source,
                            message_identifier)
  IN /\ helper' = m.helper
     /\ ret' = [op |-> "GetMessageString",
                args |-> <<log_source, message_identifier>>,
                out |-> m.out, opened |-> m.opened, lookups |-> m.lookups,
                fatal_before |-> ret.fatal_before
                                   \/ (ret.opened /\ ret.out.exc # ""),
                first |-> IF ret.first # "" THEN ret.first
                          ELSE IF ~TruthyName(helper.data_location)
                                  \/ ~isfile
                               THEN "missing" ELSE "file"]
     /\ UNCHANGED <<store, isfile, db, gen, reader>>

FileCreated ==
  /\ ~isfile
  /\ isfile' = TRUE
  /\ UNCHANGED <<store, db, gen, reader, helper, ret>>

FileRemoved ==
  /\ isfile
  /\ isfile' = FALSE
  /\ UNCHANGED <<store, db, gen, reader, helper, ret>>

\* The stores the helper is used on.
HelperStores == Stores

\* The calls of GetMessageString: <<log_source, message_identifier>>.
HelperLookups ==
  {<<LogSource, 1>>, <<LogSource, 2>>, <<"Missing Source", 1>>}

InitHelper ==
  /\ store \in HelperStores
  /\ isfile \in BOOLEAN
  /\ db = NewDatabaseFile
  /\ gen = NoGenerator
  /\ reader = NewReader
  /\ \E data_location \in {None, Some("data")},
        lcid \in {None, Some(0), Some(DEFAULT_LCID), Some(OTHER_LCID)} :
       helper = NewHelper(data_location, lcid)
  /\ ret = NoCall

NextHelper ==
  \/ \E a \in HelperLookups : HpGetMessageString(a[1], a[2])
  \/ FileCreated
  \/ FileRemoved

SpecHelper == InitHelper /\ [][NextHelper]_vars

(***************************************************************************)
(* Calls of _ReformatMessageString.  The message string at hand is         *)
(* ret.args[1] of the empty call record the behaviour starts with.         *)
(***************************************************************************)
\* The pieces raw message strings are put together from: the characters
\* the patterns look for, plain characters, and two longer pieces.
Segments ==
  {<<"a">>, <<"s">>, <<"!">>, <<"1">>, <<"2">>, <<"0">>, <<"%">>, <<"{">>,
   <<"}">>, <<"\n">>, <<"\\">>, <<"%", "1">>, <<"!", "s", "!">>}

RECURSIVE Concat(_, _)
\* The first n of the segments, concatenated.
Concat(segments, n) ==
  IF n = 0 THEN <<>> ELSE Concat(segments, n - 1) \o segments[n]

\* Message strings as Windows message files hold them.
Examples ==
  {<<"%", "1", " ", "f", "a", "i", "l", "e", "d", " ", "w", "i", "t", "h",
     " ", "%", "2", "!", "s", "!">>,
   <<"S", "a", "v", "e", " ", "%", "%", " ", "n", "o", "w">>,
   <<"a", "{", "b", "}", "c">>,
   <<"A", "%", "0", "B", "%", "b", "C", "\n", "D">>,
   <<"%", "1", "\r", "\n", "s", "o", "m", "e">>}

\* The raw message strings _ReformatMessageString is called with.
RawStrings ==
  {Concat(t, k) : t \in [1..MaxTokens -> Segments], k \in 0..MaxTokens}
  \cup Examples

\* _ReformatMessageString(message_string) on the message string at hand.
NzReformat ==
  /\ ret.op = ""
  /\ ret' = Call("_ReformatMessageString", ret.args,
                 Return(ReformatMessageString(ret.args[1])))
  /\ UNCHANGED <<store, isfile, db, gen, reader, helper>>

\* _ReformatMessageString on the string the first call returned.
NzReformatAgain ==
  /\ ret.op = "_ReformatMessageString"
  /\ ret' = Call("_ReformatMessageString again", <<ret.out.val>>,
                 Return(ReformatMessageString(ret.out.val)))
  /\ UNCHANGED <<store, isfile, db, gen, reader, helper>>

InitNormalizer ==
  /\ store = [connectable |-> FALSE, tables |-> EmptyTables]
  /\ isfile = FALSE
  /\ db = NewDatabaseFile
  /\ gen = NoGenerator
  /\ reader = NewReader
  /\ helper = NewHelper(None, None)
  /\ \E message_string \in {None} \cup {Some(raw) : raw \in RawStrings} :
       ret = Call("", <<message_string>>, Return(None))

NextNormalizer ==
  \/ NzReformat
  \/ NzReformatAgain

SpecNormalizer == InitNormalizer /\ [][NextNormalizer]_vars

(***************************************************************************)
(* What a store holds, read off its tables without any cursor: the terms   *)
(* the properties below are stated in.                                     *)
(***************************************************************************)
RECURSIVE Matching(_, _, _, _)
\* The values of a column in the rows whose key column has the given value.
Matching(rows, key_column, key, column) ==
  IF rows = <<>> THEN <<>>
  ELSE (IF Head(rows)[key_column] = key THEN <<Head(rows)[column]>>
        ELSE <<>>)
       \o Matching(Tail(rows), key_column, key, column)

\* The values the metadata table holds for an attribute; none without table.
StoredAttribute(st, name) ==
  IF <<"metadata">> \in DOMAIN st.tables
  THEN Matching(st.tables[<<"metadata">>], "name", name, "value")
  ELSE <<>>

\* The provider keys the store holds for a log source.
StoredProviderKeys(st, log_source) ==
  Matching(st.tables[<<"event_log_providers">>], "log_source", log_source,
           "event_log_provider_key")

\* The message file keys the store associates with a provider key, in order.
StoredMessageFileKeys(st, provider_key) ==
  Matching(st.tables[<<"message_file_per_event_log_provider">>],
           "event_log_provider_key", provider_key, "message_file_key")

\* The message strings of an identifier in the message table of a message
\* file and a language; none when there is no such table.
StoredMessages(st, message_file_key, lcid, message_identifier) ==
  IF MessageTableName(message_file_key, lcid) \in DOMAIN st.tables
  THEN Matching(st.tables[MessageTableName(message_file_key, lcid)],
                "message_identifier", Hex8(message_identifier),
                "message_string")
  ELSE <<>>

(***************************************************************************)
(* Properties of the helper, under SpecHelper.                             *)
(***************************************************************************)
\* C1: a call of GetMessageString in which opening the reader raises does
\* not raise itself: it returns a message string or None.
C1_FatalOpenNotPropagated ==
  (ret.op = "GetMessageString" /\ ret.opened) => ret.out.exc = ""

\* C2: once Open has raised in a call on the helper, every later call of
\* GetMessageString returns None, makes no lookup on the store and does
\* not call Open again.
C2_UnavailableAfterFatalOpen ==
  (ret.op = "GetMessageString" /\ ret.fatal_before)
    => (ret.out = Return(None) /\ ret.lookups = <<>> /\ ~ret.opened)

\* C12: when the first call of GetMessageString on a helper finds no data
\* location configured or no file at the database path, that call and every
\* later call on the helper return None and raise nothing.
C12_MissingStoreStaysNone ==
  (ret.op = "GetMessageString" /\ ret.first = "missing")
    => ret.out = Return(None)

(***************************************************************************)
(* Properties of the database file, under SpecAccessor.  GetValues is a    *)
(* generator function: its check of the connection runs when the generator *)
(* is first advanced (GetValues.start) or consumed (list(GetValues)).      *)
(***************************************************************************)
\* The calls that need an open database file.
NeedsOpen == {"HasTable", "Close", "list(GetValues)", "GetValues.start"}

\* C8: Open on a database file that is open, and HasTable, GetValues or
\* Close on one that is not, raise a RuntimeError and leave connection,
\* cursor, filename and read_only as they were.
C8_UsageErrorsChangeNothing ==
  [][/\ (ret'.op = "Open" /\ db.connection # None)
          => (ret'.out = Raise("RuntimeError") /\ db' = db)
     /\ (ret'.op \in NeedsOpen /\ db.connection = None)
          => (ret'.out = Raise("RuntimeError") /\ db' = db)
    ]_vars

\* C8 witness: Open was called with read_only set on a database file opened
\* without it, has raised, and the file is open as before.
C8_Witness ==
  /\ ret.op = "Open"
  /\ ret.args[2] = TRUE
  /\ ret.out.exc = "RuntimeError"
  /\ db.connection # None
  /\ db.read_only = Some(FALSE)

\* C9: a Close that succeeds, which is one after an Open that succeeded,
\* leaves connection, cursor, filename and read_only cleared; from that
\* state Close, HasTable and GetValues raise a RuntimeError and Open is
\* accepted again, however often the file was opened and closed before.
C9_CloseReturnsToUnopened ==
  [][/\ (ret'.op = "Close" /\ ret'.out.exc = "") => db' = NewDatabaseFile
     /\ db = NewDatabaseFile
          => /\ ret'.op \in NeedsOpen => ret'.out = Raise("RuntimeError")
             /\ ret'.op = "Open" => ret'.out = Return(store.connectable)
             /\ (ret'.op = "Open" /\ store.connectable)
                  => db'.connection # None
    ]_vars

\* C9 witness: the database file was opened, closed while a generator of
\* GetValues was iterating, and has been opened again.
C9_Witness ==
  /\ gen.state = "orphaned"
  /\ ret.op = "Open"
  /\ ret.out = Return(TRUE)
  /\ db.connection # None

\* The generator is the one _GetMessageFileKeys(7) iterates over, and a
\* next() on it has just ended it with StopIteration.
FileKeysExhausted ==
  /\ gen.query # None
  /\ gen.query[1].table = Query("files").table
  /\ gen.state = "finished"
  /\ ret.op \in {"GetValues.start", "GetValues.next"}
  /\ ret.out = Return(None)

\* C19: when the generator of the message file keys of a provider has come
\* to its end, it has yielded each message file key the store associates
\* with the provider once, in the order of the store, whatever calls of
\* HasTable and GetValues were made on the database file between two
\* next().
C19_EveryKeyYieldedOnce ==
  FileKeysExhausted
    => [i \in 1..Len(gen.yielded) |-> gen.yielded[i].message_file_key]
         = StoredMessageFileKeys(store, 7)

(***************************************************************************)
(* Properties of the reader, under SpecReader.                             *)
(***************************************************************************)
\* The reader's database file holds a connection.
ReaderConnected == reader.database_file.connection # None

RECURSIVE FirstMessage(_, _, _, _)
\* The first non-empty message string, in the order of the message file
\* keys, that the stores' message tables hold for a language and identifier.
FirstMessage(st, message_file_keys, lcid, message_identifier) ==
  IF message_file_keys = <<>> THEN None
  ELSE LET found == StoredMessages(st, Head(message_file_keys), lcid,
                                   message_identifier)
       IN IF found # <<>> /\ found[1] # <<>> THEN Some(found[1])
          ELSE FirstMessage(st, Tail(message_file_keys), lcid,
                            message_identifier)

\* The store answers a message lookup without ambiguity: one provider key
\* for the log source, non-zero, and at most one row per message table.
Unambiguous(st, log_source, lcid, message_identifier) ==
  /\ Len(StoredProviderKeys(st, log_source)) = 1
  /\ StoredProviderKeys(st, log_source)[1] # 0
  /\ LET keys == StoredMessageFileKeys(st,
                                       StoredProviderKeys(st, log_source)[1])
     IN \A i \in 1..Len(keys) :
          Len(StoredMessages(st, keys[i], lcid, message_identifier)) <= 1

\* The message GetMessage is to return from an unambiguous store: the first
\* message file's non-empty string, reformatted when the format is wrc.
ExpectedMessage(st, string_format, log_source, lcid, message_identifier) ==
  LET first == FirstMessage(
                 st,
                 StoredMessageFileKeys(
                   st, StoredProviderKeys(st, log_source)[1]),
                 lcid, message_identifier)
  IN IF string_format = "wrc" THEN ReformatMessageString(first) ELSE first

\* C3: GetMessage returns the message of the first of the provider's message
\* files, in store order, whose table for the language holds a non-empty
\* string for the identifier; a later file's message is returned when the
\* earlier files' tables are absent or hold no row for the identifier.
C3_FirstMatchingMessageFile ==
  (/\ ret.op = "GetMessage"
   /\ ReaderConnected
   /\ Unambiguous(store, ret.args[1], ret.args[2], ret.args[3]))
    => ret.out = Return(ExpectedMessage(store, reader.string_format,
                                        ret.args[1], ret.args[2],
                                        ret.args[3]))

\* C4: Open does not return True for a store whose version attribute is
\* absent or is not 20150315: on such a store it raises once the file is
\* connected; it returns False only for a file that cannot be connected.
C4_OpenChecksVersion ==
  ret.op = "Open"
    => /\ (StoredAttribute(store, "version") # <<SUPPORTED_VERSION>>
             => ~(ret.out.exc = "" /\ ret.out.val = TRUE))
       /\ (StoredAttribute(store, "version") # <<SUPPORTED_VERSION>>
             /\ store.connectable
             => ret.out.exc # "")
       /\ (ret.out.exc = "" /\ ret.out.val = FALSE => ~store.connectable)

\* C4 witness: Open has raised on a connectable store of version 20140101.
C4_Witness ==
  /\ ret.op = "Open"
  /\ store.connectable
  /\ StoredAttribute(store, "version") = <<"20140101">>
  /\ ret.out.exc = "RuntimeError"
  /\ reader.string_format = "wrc"

\* C6: a lookup that is to have a unique result raises a RuntimeError when
\* more than one row of the store matches it, whichever the rows are: the
\* provider key of a log source, the message string of an identifier in a
\* message table, the value of a metadata attribute; so do GetMessage and
\* Open, which start with such a lookup.
C6_AmbiguousLookupRaises ==
  /\ (ret.op \in {"_GetEventLogProviderKey", "GetMessage"}
        /\ Len(StoredProviderKeys(store, ret.args[1])) > 1)
       => ret.out = Raise("RuntimeError")
  /\ (ret.op = "_GetMessage"
        /\ Len(StoredMessages(store, ret.args[1], ret.args[2], ret.args[3]))
             > 1)
       => ret.out = Raise("RuntimeError")
  /\ (ret.op = "GetMetadataAttribute"
        /\ Len(StoredAttribute(store, ret.args[1])) > 1)
       => ret.out = Raise("RuntimeError")
  /\ (ret.op = "Open" /\ store.connectable
        /\ Len(StoredAttribute(store, "version")) > 1)
       => ret.out = Raise("RuntimeError")

\* C6 witness: on a connected reader the lookup of a log source that two
\* rows of event_log_providers match has raised.
C6_Witness ==
  /\ ReaderConnected
  /\ ret.op = "_GetEventLogProviderKey"
  /\ Len(StoredProviderKeys(store, ret.args[1])) = 2
  /\ ret.out.exc = "RuntimeError"

\* The store has nothing to return for a message lookup: no provider for
\* the log source, or one provider none of whose message files (there may
\* be none) has a table for the language with a row for the identifier.
Miss(st, log_source, lcid, message_identifier) ==
  \/ StoredProviderKeys(st, log_source) = <<>>
  \/ /\ Len(StoredProviderKeys(st, log_source)) = 1
     /\ LET keys == StoredMessageFileKeys(
                      st, StoredProviderKeys(st, log_source)[1])
        IN \A i \in 1..Len(keys) :
             StoredMessages(st, keys[i], lcid, message_identifier) = <<>>

\* C7: on a connected reader GetMessage returns None, and raises nothing,
\* whenever the lookup is a miss: provider not found, no message file for
\* the provider, message table absent, or no row for the identifier.
C7_MissReturnsNone ==
  (/\ ret.op = "GetMessage"
   /\ ReaderConnected
   /\ Miss(store, ret.args[1], ret.args[2], ret.args[3]))
    => ret.out = Return(None)

\* C7 witness: GetMessage has returned None for a provider that has a
\* message file but no message table for the language.
C7_Witness ==
  /\ ret.op = "GetMessage"
  /\ ReaderConnected
  /\ Len(StoredProviderKeys(store, ret.args[1])) = 1
  /\ StoredProviderKeys(store, ret.args[1])[1] # 0
  /\ LET keys == StoredMessageFileKeys(
                   store, StoredProviderKeys(store, ret.args[1])[1])
     IN /\ keys # <<>>
        /\ \A i \in 1..Len(keys) :
             MessageTableName(keys[i], ret.args[2]) \notin DOMAIN store.tables
  /\ ret.out = Return(None)

\* Open gets as far as the string format: the reader is not connected yet,
\* the file can be connected and its version is the supported one.
OpenReadsStringFormat ==
  /\ ~ReaderConnected
  /\ store.connectable
  /\ StoredAttribute(store, "version") = <<SUPPORTED_VERSION>>

\* C10: the string format the reader retains is wrc or pep3101 in every
\* state.  Open sets it to wrc when the store has no string_format attribute
\* and to the attribute's value when that is wrc or pep3101; for any other
\* value Open raises and leaves it as it was; no other call changes it.
C10_StringFormatRetained ==
  /\ reader.string_format \in {"wrc", "pep3101"}
  /\ [][/\ reader'.string_format \in {"wrc", "pep3101"}
        /\ ret'.op # "Open" => reader'.string_format = reader.string_format
        /\ (ret'.op = "Open" /\ ~(ret'.out.exc = "" /\ ret'.out.val = TRUE))
             => reader'.string_format = reader.string_format
        /\ (ret'.op = "Open" /\ OpenReadsStringFormat)
             => IF StoredAttribute(store, "string_format") = <<>>
                THEN /\ ret'.out = Return(TRUE)
                     /\ reader'.string_format = "wrc"
                ELSE IF StoredAttribute(store, "string_format")
                          \in {<<"wrc">>, <<"pep3101">>}
                THEN /\ ret'.out = Return(TRUE)
                     /\ reader'.string_format
                          = StoredAttribute(store, "string_format")[1]
                ELSE /\ ret'.out.exc # ""
                     /\ reader'.string_format = reader.string_format
       ]_vars

\* The lookups of the reader.
LookupOps ==
  {"GetMessage", "GetMetadataAttribute", "_GetEventLogProviderKey",
   "_GetMessage"}

\* A reader with the given string format whose database file was just
\* opened: connected, with nothing on its cursor.
JustOpened(string_format) ==
  [database_file |-> [connection |-> Some("connection"),
                      cursor |-> Some(<<>>),
                      filename |-> Some(DatabasePath),
                      read_only |-> Some(TRUE)],
   string_format |-> string_format]

\* C13: on a connected reader the outcome of GetMessage is determined by
\* the store, the retained string format and the arguments: it is what the
\* call gives on a reader just opened, whatever lookups were made before;
\* and no lookup changes the connection, filename and read_only of the
\* database file or the retained string format.
C13_GetMessagePure ==
  /\ [](ret.op = "GetMessage" /\ ReaderConnected
          => ret.out = GetMessage(JustOpened(reader.string_format), store,
                                  ret.args[1], ret.args[2], ret.args[3]).out)
  /\ [][ret'.op \in LookupOps
          => /\ reader'.database_file.connection
                  = reader.database_file.connection
             /\ reader'.database_file.filename
                  = reader.database_file.filename
             /\ reader'.database_file.read_only
                  = reader.database_file.read_only
             /\ reader'.string_format = reader.string_format
       ]_vars

\* C13 witness: GetMessage has returned a message on a reader that retains
\* pep3101 and was opened from the copy of the store.
C13_Witness ==
  /\ ret.op = "GetMessage"
  /\ ReaderConnected
  /\ reader.database_file.filename = Some("copy/winevt-rc.db")
  /\ reader.string_format = "pep3101"
  /\ ret.out.exc = ""
  /\ ret.out.val # None

\* C20: when Open is called on a reader whose database file is not open
\* and does not return True (it returns False, or raises on the version or
\* on the string format of the store), the database file holds no
\* connection and no cursor afterwards.
C20_FailedOpenLeavesUnopened ==
  [][(/\ ret'.op = "Open"
      /\ ~ReaderConnected
      /\ ~(ret'.out.exc = "" /\ ret'.out.val = TRUE))
       => /\ reader'.database_file.connection = None
          /\ reader'.database_file.cursor = None
    ]_vars

\* C21: on a connected reader, GetMessage for a log source that has one
\* provider row, whatever the value of its key, returns a message when the
\* table of the provider's first message file for the language holds one
\* non-empty string for the identifier: the lookup is no miss.
C21_OneProviderRowIsNoMiss ==
  (/\ ret.op = "GetMessage"
   /\ ReaderConnected
   /\ Len(StoredProviderKeys(store, ret.args[1])) = 1
   /\ LET keys == StoredMessageFileKeys(
                    store, StoredProviderKeys(store, ret.args[1])[1])
      IN /\ keys # <<>>
         /\ Len(StoredMessages(store, keys[1], ret.args[2],
                               ret.args[3])) = 1
         /\ FirstMessage(store, <<keys[1]>>, ret.args[2],
                         ret.args[3]) # None)
    => /\ ret.out.exc = ""
       /\ ret.out.val # None

(***************************************************************************)
(* The language fallback of the helper, under SpecHelper.                  *)
(***************************************************************************)
\* The outcome of GetMessage on the helper's reader for the arguments of the
\* last call and a language.
HelperLookup(lcid) ==
  GetMessage(helper.reader[1], store, ret.args[1], lcid, ret.args[2]).out

\* The provider of the last call's log source has a first message file
\* whose table for the default language holds one non-empty string for the
\* identifier, and no table of the provider for the configured language
\* holds the identifier.
OnlyInDefaultTable ==
  /\ Unambiguous(store, ret.args[1], DEFAULT_LCID, ret.args[2])
  /\ LET keys == StoredMessageFileKeys(
                   store, StoredProviderKeys(store, ret.args[1])[1])
     IN /\ keys # <<>>
        /\ Len(StoredMessages(store, keys[1], DEFAULT_LCID, ret.args[2])) = 1
        /\ StoredMessages(store, keys[1], DEFAULT_LCID, ret.args[2])[1]
             # <<>>
        /\ \A i \in 1..Len(keys) :
             StoredMessages(store, keys[i], helper.lcid, ret.args[2]) = <<>>

C11_ReformattedOnce ==
  (ret.op = "GetMessageString" /\ ret.out.exc = "" /\ ret.out.val # None)
    => LET lcid == ret.lookups[Len(ret.lookups)]
           keys == StoredMessageFileKeys(
                     store, StoredProviderKeys(store, ret.args[1])[1])
       IN \E i \in 1..Len(keys) :
            LET raw == StoredMessages(store, keys[i], lcid, ret.args[2])
            IN /\ Len(raw) = 1
               /\ ret.out.val
                    = IF helper.reader[1].string_format = "wrc"
                      THEN ReformatMessageString(Some(raw[1]))
                      ELSE Some(raw[1])

\* C11 witness: with wrc as format and 0x0407 configured, the stored string
\* a%1 of the default language has been returned as a{0:s}.
C11_Witness ==
  /\ ret.op = "GetMessageString"
  /\ helper.reader # None
  /\ helper.reader[1].string_format = "wrc"
  /\ ret.lookups = <<OTHER_LCID, DEFAULT_LCID>>
  /\ StoredMessages(store, 3, DEFAULT_LCID, ret.args[2])
       = <<(<<"a", "%", "1">>)>>
  /\ ret.out = Return(Some(<<"a", "{", "0", ":", "s", "}">>))

(***************************************************************************)
(* Properties of _ReformatMessageString, under SpecNormalizer.             *)
(***************************************************************************)
\* The characters that make a specifier of a % they follow.
SpecifierChars ==
  {"0", "b", " ", ".", "!", "%", "n", "r", "t",
   "1", "2", "3", "4", "5", "6", "7", "8", "9"}

\* The string holds none of what the four patterns look for: no % followed
\* by a specifier character, no carriage return or line feed, no curly
\* bracket.
NoSpecifierNoBrace(s) ==
  \A i \in 1..Len(s) :
    /\ s[i] \notin {"{", "}", "\r", "\n"}
    /\ (s[i] = "%" /\ i < Len(s)) => s[i + 1] \notin SpecifierChars

\* C14: a raw string that holds no specifier and no curly bracket is
\* returned unchanged.  (None and the empty string give None.)
C14_PlainStringUnchanged ==
  (/\ ret.op = "_ReformatMessageString"
   /\ ret.args[1] # None
   /\ ret.args[1][1] # <<>>
   /\ NoSpecifierNoBrace(ret.args[1][1]))
    => ret.out = Return(ret.args[1])

\* C14 witness: a raw string of three characters with a % that starts no
\* specifier has been returned as it was.
C14_Witness ==
  /\ ret.op = "_ReformatMessageString"
  /\ ret.args[1] # None
  /\ Len(ret.args[1][1]) = 3
  /\ \E i \in 1..3 : ret.args[1][1][i] = "%"
  /\ NoSpecifierNoBrace(ret.args[1][1])
  /\ ret.out = Return(ret.args[1])

\* The number of characters of the placeholder token a string starts with,
\* %N with N of one or two digits and what follows it of !, s, !.
PlaceHolderLength(s) ==
  LET digits == IF Len(s) >= 3 /\ s[3] \in {DecChars[i] : i \in 1..10}
                THEN 2 ELSE 1
  IN 1 + digits + OptionalPrefix(Drop(s, 1 + digits))

\* The slot {N-1:s} of the placeholder token a string starts with.
SlotOf(s) ==
  LET number == IF Len(s) >= 3 /\ s[3] \in {DecChars[i] : i \in 1..10}
                THEN 10 * DigitValue(s[2]) + DigitValue(s[3])
                ELSE DigitValue(s[2])
  IN <<"{">> \o DecDigits(number - 1) \o <<":", "s", "}">>

RECURSIVE RawTokens(_, _)
\* The raw string read from left to right as tokens, and of these what the
\* tokens of a kind are to become: of kind "placeholder" the slot of each
\* %N, of kind "text" the backslash and character of each text specifier.
RawTokens(s, kind) ==
  IF s = <<>> THEN <<>>
  ELSE IF Len(s) >= 2 /\ s[1] = "%" /\ s[2] \in SpecifierChars
       THEN IF s[2] \in {"0", "b"}
            THEN RawTokens(Drop(s, 2), kind)
            ELSE IF s[2] \in {" ", ".", "!", "%", "n", "r", "t"}
            THEN (IF kind = "text" THEN <<(<<"\\", s[2]>>)>> ELSE <<>>)
                 \o RawTokens(Drop(s, 2), kind)
            ELSE (IF kind = "placeholder" THEN <<SlotOf(s)>> ELSE <<>>)
                 \o RawTokens(Drop(s, PlaceHolderLength(s)), kind)
       ELSE RawTokens(Drop(s, 1), kind)

\* The places of a string where a part starts.
StartsOf(s, part) ==
  {i \in 1..(Len(s) - Len(part) + 1) :
     SubSeq(s, i, i + Len(part) - 1) = part}

RECURSIVE ContainsInOrder(_, _)
\* The string holds the parts one after the other, in their order.
ContainsInOrder(s, parts) ==
  IF parts = <<>> THEN TRUE
  ELSE IF StartsOf(s, Head(parts)) = {} THEN FALSE
  ELSE LET first == CHOOSE i \in StartsOf(s, Head(parts)) :
                      \A j \in StartsOf(s, Head(parts)) : i <= j
       IN ContainsInOrder(Drop(s, first + Len(Head(parts)) - 1),
                          Tail(parts))

\* C15: every placeholder token %N of the raw string, N in 1..99, with the
\* !, s, ! that may follow it, is in the output as the slot {N-1:s}: the
\* output holds the slots of the raw string's placeholders in their order.
C15_PlaceholdersBecomeSlots ==
  (/\ ret.op = "_ReformatMessageString"
   /\ ret.args[1] # None
   /\ RawTokens(ret.args[1][1], "placeholder") # <<>>)
    => /\ ret.out.val # None
       /\ ContainsInOrder(ret.out.val[1],
                          RawTokens(ret.args[1][1], "placeholder"))

\* C16: every text specifier of the raw string, % and one of space . ! % n
\* r t, is in the output as a backslash and that character, whatever
\* follows it: the output holds these escapes in their order.
C16_TextSpecifiersBecomeEscapes ==
  (/\ ret.op = "_ReformatMessageString"
   /\ ret.args[1] # None
   /\ RawTokens(ret.args[1][1], "text") # <<>>)
    => /\ ret.out.val # None
       /\ ContainsInOrder(ret.out.val[1], RawTokens(ret.args[1][1], "text"))

RECURSIVE Count(_, _)
\* The number of times a character is in a string.
Count(c, s) ==
  IF s = <<>> THEN 0
  ELSE (IF Head(s) = c THEN 1 ELSE 0) + Count(c, Tail(s))

RECURSIVE PlaceHolderMatches(_)
\* The number of placeholders the last stage converts in the string the
\* first three stages hand to it: the matches of its pattern from left to
\* right.
PlaceHolderMatches(s) ==
  IF s = <<>> THEN 0
  ELSE IF Len(s) >= 2 /\ s[1] = "%"
            /\ s[2] \in {"1", "2", "3", "4", "5", "6", "7", "8", "9"}
       THEN 1 + PlaceHolderMatches(Drop(s, PlaceHolderLength(s)))
       ELSE PlaceHolderMatches(Drop(s, 1))

\* The placeholders converted when a raw string is reformatted.
Converted(raw) ==
  PlaceHolderMatches(CurlyBracketsSub(TextSpecifierSub(
                       WhiteSpaceSpecifierSub(raw))))

\* C17: the output holds every curly bracket of the raw string twice, and
\* besides these only the one { and the one } of each slot that the
\* conversion of a placeholder puts in: of each bracket twice the number
\* in the raw string plus the number of placeholders converted.
C17_BracesDoubled ==
  (/\ ret.op = "_ReformatMessageString"
   /\ ret.args[1] # None
   /\ ret.args[1][1] # <<>>)
    => /\ ret.out.exc = ""
       /\ ret.out.val # None
       /\ Count("{", ret.out.val[1])
            = 2 * Count("{", ret.args[1][1]) + Converted(ret.args[1][1])
       /\ Count("}", ret.out.val[1])
            = 2 * Count("}", ret.args[1][1]) + Converted(ret.args[1][1])

\* C17 witness: a raw string with a curly bracket and a placeholder has
\* been reformatted: {%1 into {{{0:s}.
C17_Witness ==
  /\ ret.op = "_ReformatMessageString"
  /\ ret.args[1] = Some(<<"{", "%", "1">>)
  /\ ret.out = Return(Some(<<"{", "{", "{", "0", ":", "s", "}">>))

\* The string holds a curly bracket.
HasBrace(s) == \E i \in 1..Len(s) : s[i] \in {"{", "}"}

\* The string holds an escape as the second stage makes them: a backslash
\* and one of space . ! % n r t.
HasEscape(s) ==
  \E i \in 1..(Len(s) - 1) :
    s[i] = "\\" /\ s[i + 1] \in {" ", ".", "!", "%", "n", "r", "t"}

====
